---- MODULE Spec2Model ----
(***************************************************************************)
(* Model of deepmusic: the training-schedule policies and Model.step of    *)
(* src/deepmusic/model.py, and of src/deepmusic/musicdata.py the batch     *)
(* pipeline MusicData.get_batches, the conversions between songs and piano *)
(* rolls, the samples file read and written by MusicData.__init__, and     *)
(* get_batches_test.  Each part has its own specification: SpecModel,      *)
(* SpecData, SpecCodec, SpecCorpus, SpecInitiator.                         *)
(*                                                                         *)
(* Python floats are modelled as exact rationals <<n, d>> in lowest terms  *)
(* with d > 0; <<0, 0>> stands for a command-line token that is not a      *)
(* number.  Lists indexed by the step i or the example j are functions     *)
(* over 0..n-1, so that indices are the ones of the source; the lists of   *)
(* songs, sub-songs and batches are sequences.                             *)
(***************************************************************************)
EXTENDS Integers, Sequences, FiniteSets, TLC

VARIABLES
    args,                   \* Model.args: the parameters the model was built with
    schedule_policy,        \* Model.schedule_policy
    target_weights_policy,  \* Model.target_weights_policy
    learning_rate_policy,   \* Model.learning_rate_policy
    loss_weights,           \* weights handed to sequence_loss by _build_network
    error,                  \* the exception that ended the last operation
    call,                   \* arguments and random draws of the last Model.step call
    ops,                    \* operators returned by the last Model.step call
    feed_dict,              \* feed dictionary returned by the last Model.step call
    pc,                     \* position of the program
    data_args,              \* MusicData.args
    songs_train,            \* MusicData.songs_train
    songs_test,             \* MusicData.songs_test
    train_set,              \* the partition get_batches was called on
    sub_songs,              \* get_batches: the extracted sub-songs
    batches,                \* get_batches: the returned batches
    loaded_song,            \* the song handed to _convert_song2array
    piano_roll,             \* the array _convert_song2array returned
    new_song,               \* the song _convert_array2song returned
    new_roll,               \* the array obtained by converting new_song again
    midi_dir,               \* the files of the midi directory
    samples_file,           \* the pickled samples file, NoFile if absent
    songs,                  \* MusicData.songs of the last run
    created,                \* the partitions of the run that wrote the file
    nb_shuffles,            \* calls of np.random.shuffle(self.songs) so far
    runs,                   \* constructions of MusicData so far
    initiators,             \* the 'initiator' list of the initiators file
    test_batches,           \* get_batches_test: the returned batches
    names                   \* get_batches_test: the returned names

model_vars == <<args, schedule_policy, target_weights_policy, learning_rate_policy,
                loss_weights, call, ops, feed_dict>>
data_vars == <<data_args, songs_train, songs_test, train_set, sub_songs, batches>>
codec_vars == <<loaded_song, piano_roll, new_song, new_roll>>
corpus_vars == <<midi_dir, samples_file, songs, created, nb_shuffles, runs>>
initiator_vars == <<initiators, test_batches, names>>
io_vars == <<codec_vars, corpus_vars, initiator_vars>>
vars == <<model_vars, data_vars, io_vars, error, pc>>

----------------------------------------------------------------------------
(* Bounds *)

MaxSampleLength == 2   \* args.sample_length ranges over 1..MaxSampleLength in Model
MaxGlobStep == 2       \* glob_step and the policies' step parameters
MaxSeq == 2            \* longest batch handed to Model.step
RandDen == 3           \* np.random.rand() returns k/RandDen, 0 <= k < RandDen
ValDen == 2            \* sampling values are k/ValDen, -1 <= k <= ValDen+1
MaxDecay == 2          \* decay periods -1..MaxDecay
NB_NOTES == 2          \* music.NB_NOTES, the height of a piano roll
MaxSongs == 2          \* songs in the dataset
MaxSongLen == 6        \* columns of a piano roll
MaxTotalLen == 10      \* columns of the whole dataset
NbPatterns == 2        \* distinct contents per list of song lengths
MaxBatchSize == 4      \* args.batch_size ranges over 1..MaxBatchSize

----------------------------------------------------------------------------
(* Rationals *)

RECURSIVE GCD(_, _)
GCD(a, b) == IF b = 0 THEN a ELSE GCD(b, a % b)

Abs(x) == IF x < 0 THEN -x ELSE x

\* n/d in lowest terms with a positive denominator (d # 0)
Norm(n, d) ==
    LET g == GCD(Abs(n), Abs(d))
        s == IF d < 0 THEN -1 ELSE 1
    IN  <<(s * n) \div g, (s * d) \div g>>

RInt(n) == <<n, 1>>
RSub(a, b) == Norm(a[1] * b[2] - b[1] * a[2], a[2] * b[2])
RAdd(a, b) == Norm(a[1] * b[2] + b[1] * a[2], a[2] * b[2])
RMul(a, b) == Norm(a[1] * b[1], a[2] * b[2])
RDiv(a, b) == Norm(a[1] * b[2], a[2] * b[1])
RLeq(a, b) == a[1] * b[2] <= b[1] * a[2]
RLt(a, b) == a[1] * b[2] < b[1] * a[2]

RECURSIVE Pow2(_)
Pow2(k) == IF k <= 0 THEN 1 ELSE 2 * Pow2(k - 1)

\* Python's a // b on integers (floor division), b # 0
FloorDivPos(a, b) ==
    IF a >= 0 THEN a \div b ELSE -(((-a) + b - 1) \div b)

FloorDiv(a, b) == IF b > 0 THEN FloorDivPos(a, b) ELSE FloorDivPos(-a, -b)

Min(a, b) == IF a < b THEN a ELSE b

----------------------------------------------------------------------------
(* Command-line tokens: int(s) accepts only integer literals, float(s) any *)
(* number.                                                                 *)

NaN == <<0, 0>>
IsNum(t) == t[2] # 0
IsIntLit(t) == t[2] = 1

NoError == [type |-> "none", at |-> "none"]
Raise(t, where) == [type |-> t, at |-> where]

----------------------------------------------------------------------------
(* Model.ScheduledSamplingPolicy *)

NoSchedule ==
    [policy |-> "None", start_step |-> 0, end_step |-> 0,
     start_value |-> RInt(0), end_value |-> RInt(0)]

\* ScheduledSamplingPolicy.__init__: the policy object, or the exception
ScheduledSamplingPolicy_init(a) ==
    LET ss == a.scheduled_sampling
        at == "ScheduledSamplingPolicy.__init__"
    IN  IF Len(ss) = 0
        THEN [err |-> Raise("AssertionError", at), obj |-> NoSchedule]
        ELSE IF ss[1] = "none" \/ ss[1] = "always"
        THEN [err |-> NoError, obj |-> [NoSchedule EXCEPT !.policy = ss[1]]]
        ELSE IF ss[1] = "linear"
        THEN IF Len(ss) # 5
             THEN [err |-> Raise("ValueError", at), obj |-> NoSchedule]
             ELSE IF ~IsIntLit(ss[2]) \/ ~IsIntLit(ss[3]) \/ ~IsNum(ss[4]) \/ ~IsNum(ss[5])
             THEN [err |-> Raise("ValueError", at), obj |-> NoSchedule]
             ELSE IF \/ ss[2][1] >= ss[3][1]
                     \/ ~(RLeq(RInt(0), ss[4]) /\ RLeq(ss[4], RInt(1)))
                     \/ ~(RLeq(RInt(0), ss[5]) /\ RLeq(ss[5], RInt(1)))
             THEN [err |-> Raise("ValueError", at), obj |-> NoSchedule]
             ELSE [err |-> NoError,
                   obj |-> [policy |-> "linear", start_step |-> ss[2][1], end_step |-> ss[3][1],
                            start_value |-> ss[4], end_value |-> ss[5]]]
        ELSE [err |-> Raise("ValueError", at), obj |-> NoSchedule]

\* Mutant: the slope taken over end_step - start_step
linear_threshold_rising(p, step) ==
    IF step < p.start_step THEN p.start_value
    ELSE IF step < p.end_step
    THEN LET slope == RDiv(RSub(p.start_value, p.end_value), RInt(p.end_step - p.start_step))
         IN  RAdd(RMul(slope, RInt(step - p.start_step)), p.start_value)
    ELSE p.end_value

\* linear_policy(step), before its assertion
linear_threshold(p, step) ==
    IF step < p.start_step THEN p.start_value
    ELSE IF step < p.end_step
    THEN LET slope == RDiv(RSub(p.start_value, p.end_value), RInt(p.start_step - p.end_step))
         IN  RAdd(RMul(slope, RInt(step - p.start_step)), p.start_value)
    ELSE p.end_value

\* Mutant: the lambdas of 'none' and 'always' exchanged
sampling_policy_fct_swapped(p, step) ==
    IF p.policy = "none" THEN [err |-> NoError, val |-> RInt(0)]
    ELSE IF p.policy = "always" THEN [err |-> NoError, val |-> RInt(1)]
    ELSE [err |-> NoError, val |-> linear_threshold(p, step)]

\* sampling_policy_fct(step): the lambda or linear_policy chosen by __init__
sampling_policy_fct(p, step) ==
    IF p.policy = "none" THEN [err |-> NoError, val |-> RInt(1)]
    ELSE IF p.policy = "always" THEN [err |-> NoError, val |-> RInt(0)]
    ELSE IF p.policy = "linear"
    THEN LET threshold == linear_threshold(p, step)
         IN  IF RLeq(RInt(0), threshold) /\ RLeq(threshold, RInt(1))
             THEN [err |-> NoError, val |-> threshold]
             ELSE [err |-> Raise("AssertionError", "linear_policy"), val |-> threshold]
    ELSE [err |-> Raise("TypeError", "get_prev_threshold"), val |-> RInt(0)]

get_prev_threshold(p, glob_step) == sampling_policy_fct(p, glob_step)

----------------------------------------------------------------------------
(* Model.TargetWeightsPolicy *)

NoTargetWeights == [constructed |-> FALSE, target_weights |-> "", sample_length |-> 0]

\* TargetWeightsPolicy.__init__ only stores args
TargetWeightsPolicy_init(a) ==
    [err |-> NoError,
     obj |-> [constructed |-> TRUE, target_weights |-> a.target_weights,
              sample_length |-> a.sample_length]]

\* Mutant: the 'step' mode answered like 'none' instead of raising
get_weight_step_as_none(p, i) ==
    IF p.target_weights = "linear" /\ p.sample_length - 1 # 0
    THEN [err |-> NoError, val |-> Norm(i, p.sample_length - 1)]
    ELSE IF p.target_weights = "linear"
    THEN [err |-> Raise("ZeroDivisionError", "TargetWeightsPolicy.get_weight"), val |-> RInt(0)]
    ELSE IF p.target_weights \in {"", "none", "step"}
    THEN [err |-> NoError, val |-> RInt(1)]
    ELSE [err |-> Raise("ValueError", "TargetWeightsPolicy.get_weight"), val |-> RInt(0)]

get_weight(p, i) ==
    LET at == "TargetWeightsPolicy.get_weight"
    IN  IF p.target_weights = "" \/ p.target_weights = "none"
        THEN [err |-> NoError, val |-> RInt(1)]
        ELSE IF p.target_weights = "linear"
        THEN IF p.sample_length - 1 = 0
             THEN [err |-> Raise("ZeroDivisionError", at), val |-> RInt(0)]
             ELSE [err |-> NoError, val |-> Norm(i, p.sample_length - 1)]
        ELSE IF p.target_weights = "step"
        THEN [err |-> Raise("NotImplementedError", at), val |-> RInt(0)]
        ELSE [err |-> Raise("ValueError", at), val |-> RInt(0)]

----------------------------------------------------------------------------
(* Model.LearningRatePolicy *)

NoLearningRate == [policy |-> "None", learning_rate_init |-> RInt(0), decay_period |-> 0]

LearningRatePolicy_init(a) ==
    LET lr == a.learning_rate
        at == "LearningRatePolicy.__init__"
    IN  IF Len(lr) = 0
        THEN [err |-> Raise("AssertionError", at), obj |-> NoLearningRate]
        ELSE IF lr[1] = "cst"
        THEN IF Len(lr) # 2 \/ ~IsNum(lr[2])
             THEN [err |-> Raise("ValueError", at), obj |-> NoLearningRate]
             ELSE [err |-> NoError,
                   obj |-> [policy |-> "cst", learning_rate_init |-> lr[2], decay_period |-> 0]]
        ELSE IF lr[1] = "step"
        THEN IF Len(lr) # 3 \/ ~IsNum(lr[2]) \/ ~IsIntLit(lr[3])
             THEN [err |-> Raise("ValueError", at), obj |-> NoLearningRate]
             ELSE [err |-> NoError,
                   obj |-> [policy |-> "step", learning_rate_init |-> lr[2],
                            decay_period |-> lr[3][1]]]
        ELSE IF lr[1] = "exponential"
        THEN [err |-> Raise("NotImplementedError", at), obj |-> NoLearningRate]
        ELSE [err |-> Raise("ValueError", at), obj |-> NoLearningRate]

lr_cst(p, glob_step) == [err |-> NoError, val |-> p.learning_rate_init]

\* learning_rate_init / 2**(glob_step // decay_period); 2**k is a float for k < 0
lr_step(p, glob_step) ==
    IF p.decay_period = 0
    THEN [err |-> Raise("ZeroDivisionError", "LearningRatePolicy._lr_step"), val |-> RInt(0)]
    ELSE LET k == FloorDiv(glob_step, p.decay_period)
         IN  [err |-> NoError,
              val |-> IF k >= 0 THEN RDiv(p.learning_rate_init, RInt(Pow2(k)))
                      ELSE RMul(p.learning_rate_init, RInt(Pow2(-k)))]

get_learning_rate(p, glob_step) ==
    IF p.policy = "cst" THEN lr_cst(p, glob_step)
    ELSE IF p.policy = "step" THEN lr_step(p, glob_step)
    ELSE [err |-> Raise("TypeError", "get_learning_rate"), val |-> RInt(0)]

----------------------------------------------------------------------------
(* Model.__init__ / Model._build_network *)

\* Values k/ValDen around [0, 1] and the arguments a model is built with
SamplingValues == {Norm(k, ValDen) : k \in -1..(ValDen + 1)}

ScheduledSamplingArgs ==
    {<<>>, <<"none">>, <<"always">>, <<"linear">>, <<"bogus">>,
     <<"linear", NaN, RInt(1), RInt(1), RInt(0)>>,
     <<"linear", RInt(0), Norm(1, 2), RInt(1), RInt(0)>>,
     <<"linear", RInt(0), RInt(1), NaN, RInt(0)>>}
    \cup {<<"linear", RInt(s), RInt(e), sv, ev>> :
            s \in 0..MaxGlobStep, e \in 0..MaxGlobStep,
            sv \in SamplingValues, ev \in SamplingValues}

TargetWeightsArgs == {"", "none", "linear", "step", "bogus"}

LearningRateArgs ==
    {<<>>, <<"cst">>, <<"cst", RInt(1)>>, <<"cst", NaN>>, <<"step", RInt(1)>>,
     <<"step", RInt(1), NaN>>, <<"exponential">>, <<"bogus">>}
    \cup {<<"step", RInt(1), RInt(d)>> : d \in -1..MaxDecay}

\* The arguments a model is built with: every combination of the policy
\* modes and arities, and every parameter of the linear sampling policy.
\* In test mode _build_network reads none of the policy arguments.
ModelArgs ==
    [test : {FALSE}, sample_length : 1..MaxSampleLength,
     scheduled_sampling : {<<>>, <<"none">>, <<"always">>, <<"bogus">>,
                           <<"linear", RInt(0), RInt(MaxGlobStep), RInt(1), RInt(0)>>},
     target_weights : TargetWeightsArgs,
     learning_rate : LearningRateArgs]
    \cup
    [test : {FALSE}, sample_length : 1..MaxSampleLength,
     scheduled_sampling : ScheduledSamplingArgs,
     target_weights : {""},
     learning_rate : {<<"cst", RInt(1)>>}]
    \cup
    [test : {TRUE}, sample_length : 1..MaxSampleLength,
     scheduled_sampling : {<<"none">>},
     target_weights : {""},
     learning_rate : {<<"cst", RInt(1)>>}]

NoArgs ==
    [test |-> FALSE, sample_length |-> 0, scheduled_sampling |-> <<>>,
     target_weights |-> "", learning_rate |-> <<>>]

\* The policies and loss weights _build_network leaves behind, and the
\* exception it ends with, if any
build_network(a) ==
    LET none == [err |-> NoError, schedule |-> NoSchedule, weights_policy |-> NoTargetWeights,
                 rate |-> NoLearningRate, weights |-> <<>>]
    IN  IF a.test THEN none
        ELSE
        LET sp == ScheduledSamplingPolicy_init(a)
            tw == TargetWeightsPolicy_init(a)
            lr == LearningRatePolicy_init(a)
            w  == [i \in 0..(a.sample_length - 1) |-> get_weight(tw.obj, i)]
        IN  IF sp.err # NoError THEN [none EXCEPT !.err = sp.err]
            ELSE IF tw.err # NoError
            THEN [none EXCEPT !.err = tw.err, !.schedule = sp.obj]
            ELSE IF lr.err # NoError
            THEN [none EXCEPT !.err = lr.err, !.schedule = sp.obj, !.weights_policy = tw.obj]
            ELSE IF \E i \in DOMAIN w : w[i].err # NoError
            THEN LET i0 == CHOOSE i \in DOMAIN w :
                                /\ w[i].err # NoError
                                /\ \A j \in 0..(i - 1) : w[j].err = NoError
                 IN  [none EXCEPT !.err = w[i0].err, !.schedule = sp.obj,
                              !.weights_policy = tw.obj, !.rate = lr.obj]
            ELSE [err |-> NoError, schedule |-> sp.obj, weights_policy |-> tw.obj,
                  rate |-> lr.obj, weights |-> [i \in DOMAIN w |-> w[i].val]]

NoCall ==
    [n_inputs |-> 0, n_targets |-> 0, train_set |-> FALSE, glob_step |-> 0,
     ret_output |-> FALSE, rand |-> <<>>]

Unfed == <<0, 0>>
NoFeed == [inputs |-> <<>>, targets |-> <<>>, use_prev |-> <<>>, current_learning_rate |-> Unfed]

ModelInit ==
    /\ pc = "start"
    /\ \E a \in ModelArgs :
       LET b == build_network(a)
       IN  /\ args' = a
           /\ schedule_policy' = b.schedule
           /\ target_weights_policy' = b.weights_policy
           /\ learning_rate_policy' = b.rate
           /\ loss_weights' = b.weights
           /\ error' = b.err
           /\ pc' = IF b.err = NoError THEN "built" ELSE "build_failed"
    /\ UNCHANGED <<call, ops, feed_dict, data_vars, io_vars>>

----------------------------------------------------------------------------
(* Model.step *)

\* The values np.random.rand() can return
RandValues == {Norm(k, RandDen) : k \in 0..(RandDen - 1)}

\* Mutant: strict comparison of the draw with the threshold
use_prev_train_strict(r, theta) == RLt(theta, r)

\* Line 421: the flag fed to use_prev[i] for the draw r and the threshold theta
use_prev_train(r, theta) == RLeq(theta, r)

\* Lines 434-439: the index of batch.inputs fed to inputs[i] and the flag fed to
\* use_prev[i] when generating
generate_input(i, n_inputs) == IF i < n_inputs THEN i ELSE 0
\* Mutant: the seed taken to be one step longer than it is
generate_use_prev_late(i, n_inputs) == ~(i <= n_inputs)

generate_use_prev(i, n_inputs) == ~(i < n_inputs)

\* Mutant: the optimizer returned for every call
train_ops_always(c) ==
    <<"opt_op">> \o (IF c.ret_output THEN <<"outputs">> ELSE <<>>)

\* Lines 426-429 and 441: the operators returned
train_ops(c) ==
    (IF c.train_set THEN <<"opt_op">> ELSE <<>>) \o (IF c.ret_output THEN <<"outputs">> ELSE <<>>)
generate_ops == <<"outputs">>

\* The training branch of step (lines 412-429).  A batch is given by the
\* lengths of batch.inputs and batch.targets; feed_dict records the index of
\* the batch element each placeholder receives.  rs are the values the
\* successive calls of np.random.rand() return; drawn is how many were made.
step_train(a, sp, lrp, c, rs) ==
    LET at == "Model.step"
        sl == a.sample_length
        lr == IF c.train_set THEN get_learning_rate(lrp, c.glob_step)
              ELSE [err |-> NoError, val |-> Unfed]
        th == get_prev_threshold(sp, c.glob_step)
        fail == [err |-> NoError, ops |-> <<>>, feed |-> NoFeed, drawn |-> 0]
        n == Min(c.n_inputs, c.n_targets)
    IN  IF c.train_set /\ ~(c.glob_step >= 0)
        THEN [fail EXCEPT !.err = Raise("AssertionError", at)]
        ELSE IF lr.err # NoError THEN [fail EXCEPT !.err = lr.err]
        ELSE IF n < sl
        THEN [fail EXCEPT !.err = Raise("IndexError", at), !.drawn = n]
        ELSE IF th.err # NoError THEN [fail EXCEPT !.err = th.err, !.drawn = 1]
        ELSE [err |-> NoError,
              ops |-> train_ops(c),
              feed |-> [inputs |-> [i \in 0..(sl - 1) |-> i],
                        targets |-> [i \in 0..(sl - 1) |-> i],
                        use_prev |-> [i \in 0..(sl - 1) |-> use_prev_train(rs[i], th.val)],
                        current_learning_rate |-> lr.val],
              drawn |-> sl]

\* The generating branch of step (lines 430-441)
step_generate(a, c) ==
    LET sl == a.sample_length
    IN  IF c.n_inputs = 0
        THEN [err |-> Raise("IndexError", "Model.step"), ops |-> <<>>, feed |-> NoFeed, drawn |-> 0]
        ELSE [err |-> NoError,
              ops |-> generate_ops,
              feed |-> [inputs |-> [i \in 0..(sl - 1) |-> generate_input(i, c.n_inputs)],
                        targets |-> <<>>,
                        use_prev |-> [i \in 0..(sl - 1) |-> generate_use_prev(i, c.n_inputs)],
                        current_learning_rate |-> Unfed],
              drawn |-> 0]

\* Batches handed to step: those of get_batches (inputs and targets) and
\* those of get_batches_test (inputs only)
StepCalls ==
    {c \in [n_inputs : 0..MaxSeq, n_targets : 0..MaxSeq, train_set : BOOLEAN,
            glob_step : -1..MaxGlobStep, ret_output : BOOLEAN, rand : {<<>>}] :
        c.n_targets \in {0, c.n_inputs}}

Step ==
    /\ pc = "built"
    /\ \E c \in StepCalls : \E rs \in [0..(args.sample_length - 1) -> RandValues] :
       LET r == IF ~args.test
                THEN step_train(args, schedule_policy, learning_rate_policy, c, rs)
                ELSE step_generate(args, c)
       IN  /\ call' = [c EXCEPT !.rand = [i \in 0..(r.drawn - 1) |-> rs[i]]]
           /\ ops' = r.ops
           /\ feed_dict' = r.feed
           /\ error' = r.err
           /\ pc' = IF r.err = NoError THEN "stepped" ELSE "step_failed"
    /\ UNCHANGED <<args, schedule_policy, target_weights_policy, learning_rate_policy,
                   loss_weights, data_vars, io_vars>>

ModelStart ==
    /\ args = NoArgs
    /\ schedule_policy = NoSchedule
    /\ target_weights_policy = NoTargetWeights
    /\ learning_rate_policy = NoLearningRate
    /\ loss_weights = <<>>
    /\ call = NoCall
    /\ ops = <<>>
    /\ feed_dict = NoFeed

DataStart ==
    /\ data_args = [sample_length |-> 0, batch_size |-> 0]
    /\ songs_train = <<>>
    /\ songs_test = <<>>
    /\ train_set = TRUE
    /\ sub_songs = <<>>
    /\ batches = <<>>

\* The values of a MusicData that has read no song, no file, no initiator
NoSong == [ticks_per_beat |-> 0, tracks |-> <<>>]
NoFile == [version |-> "", songs |-> <<>>]
NoSplit == [run |-> 0, songs_train |-> <<>>, songs_test |-> <<>>]

CodecStart ==
    /\ loaded_song = NoSong
    /\ piano_roll = <<>>
    /\ new_song = NoSong
    /\ new_roll = <<>>

CorpusStart ==
    /\ midi_dir = <<>>
    /\ samples_file = NoFile
    /\ songs = <<>>
    /\ created = NoSplit
    /\ nb_shuffles = 0
    /\ runs = 0

InitiatorStart ==
    /\ initiators = <<>>
    /\ test_batches = <<>>
    /\ names = <<>>

InitModel ==
    /\ ModelStart
    /\ DataStart
    /\ CodecStart
    /\ CorpusStart
    /\ InitiatorStart
    /\ error = NoError
    /\ pc = "start"

NextModel ==
    \/ ModelInit
    \/ Step

SpecModel == InitModel /\ [][NextModel]_vars

----------------------------------------------------------------------------
(* Properties of Model.step and of the policies (SpecModel) *)

Steps == 0..(args.sample_length - 1)
TrainStepped == pc = "stepped" /\ ~args.test
Theta == get_prev_threshold(schedule_policy, call.glob_step).val
AtLeast(r, theta) == r[1] * theta[2] >= theta[1] * r[2]

\* C1 as stated: in Train mode the ground truth is fed (use_prev[i] = False)
\* if the draw r of step i is >= theta, and use_prev[i] = True otherwise.
C1_GroundTruthWhenAbove ==
    TrainStepped =>
        \A i \in Steps : feed_dict.use_prev[i] = ~AtLeast(call.rand[i], Theta)

\* C1 amended: in Train mode use_prev[i] = True (the model's previous output
\* replaces the input) if the draw r of step i is >= theta, and the ground
\* truth is fed (use_prev[i] = False) if r < theta.
C1_PreviousOutputWhenAbove ==
    TrainStepped =>
        /\ DOMAIN feed_dict.use_prev = Steps
        /\ DOMAIN call.rand = Steps
        /\ \A i \in Steps : feed_dict.use_prev[i] = AtLeast(call.rand[i], Theta)

C1_Witness ==
    /\ TrainStepped
    /\ schedule_policy.policy = "linear"
    /\ \E i \in Steps : AtLeast(call.rand[i], Theta) /\ feed_dict.use_prev[i]
    /\ \E i \in Steps : ~AtLeast(call.rand[i], Theta) /\ ~feed_dict.use_prev[i]

\* C2: in Train mode, with the policy 'always' every step of Model.step is
\* marked use_prev = True, with the policy 'none' every step is marked
\* use_prev = False, whatever glob_step and the draws are.
C2_AlwaysAndNone ==
    (TrainStepped /\ args.scheduled_sampling[1] \in {"always", "none"}) =>
        /\ DOMAIN feed_dict.use_prev = Steps
        /\ \A i \in Steps : feed_dict.use_prev[i] = (args.scheduled_sampling[1] = "always")

C2_Witness ==
    /\ TrainStepped
    /\ args.scheduled_sampling = <<"always">>
    /\ args.sample_length > 1
    /\ call.glob_step = MaxGlobStep
    /\ \E i \in Steps : call.rand[i] = RInt(0)
    /\ \A i \in Steps : feed_dict.use_prev[i]

\* C8: in Generate mode, for a seed of L >= 1 input steps the call succeeds,
\* step i < L is fed batch.inputs[i] with use_prev[i] = False, step i >= L has
\* use_prev[i] = True, every input and use_prev placeholder is fed and the
\* operators returned are exactly the outputs.
C8_GenerateFeeding ==
    /\ (args.test /\ pc = "step_failed") => call.n_inputs = 0
    /\ (args.test /\ pc = "stepped") =>
        /\ call.n_inputs >= 1
        /\ DOMAIN feed_dict.inputs = Steps
        /\ DOMAIN feed_dict.use_prev = Steps
        /\ \A i \in Steps :
            /\ i < call.n_inputs => (feed_dict.inputs[i] = i /\ feed_dict.use_prev[i] = FALSE)
            /\ i >= call.n_inputs => feed_dict.use_prev[i] = TRUE
        /\ ops = <<"outputs">>

C8_Witness ==
    /\ args.test /\ pc = "stepped"
    /\ call.n_inputs = 1
    /\ args.sample_length = 2
    /\ feed_dict.use_prev = [i \in Steps |-> i >= 1]

\* C9 as stated: a policy object that was constructed never raises when it is
\* evaluated: get_prev_threshold(n), get_weight(t) and get_learning_rate(n)
\* succeed for every n in 0..MaxGlobStep and every t in [0, sample_length).
C9_ValidatedAtConstruction ==
    /\ schedule_policy # NoSchedule =>
         \A n \in 0..MaxGlobStep : get_prev_threshold(schedule_policy, n).err = NoError
    /\ target_weights_policy.constructed =>
         \A t \in 0..(target_weights_policy.sample_length - 1) :
            get_weight(target_weights_policy, t).err = NoError
    /\ learning_rate_policy # NoLearningRate =>
         \A n \in 0..MaxGlobStep : get_learning_rate(learning_rate_policy, n).err = NoError

LinearArgs ==
    /\ pc \in {"built", "build_failed"}
    /\ ~args.test
    /\ Len(args.scheduled_sampling) = 5
    /\ args.scheduled_sampling[1] = "linear"
    /\ IsIntLit(args.scheduled_sampling[2]) /\ IsIntLit(args.scheduled_sampling[3])
    /\ IsNum(args.scheduled_sampling[4]) /\ IsNum(args.scheduled_sampling[5])
InUnit(r) == RLeq(RInt(0), r) /\ RLeq(r, RInt(1))
ThetaAt(n) == get_prev_threshold(schedule_policy, n)
GlobSteps == 0..(MaxGlobStep + 1)

\* C11: the construction of a linear schedule fails with ValueError whenever
\* start_step >= end_step or start_value or end_value is outside [0, 1]; for
\* every accepted schedule and every global step n >= 0 the threshold is
\* start_value for n <= start_step, end_value for n >= end_step, lies in
\* [0, 1] (the assertion of linear_policy never fails), and is non-increasing
\* in n if start_value > end_value, non-decreasing otherwise.
C11_LinearThreshold ==
    LinearArgs =>
        LET s == args.scheduled_sampling[2][1]
            e == args.scheduled_sampling[3][1]
            sv == args.scheduled_sampling[4]
            ev == args.scheduled_sampling[5]
        IN  IF s >= e \/ ~InUnit(sv) \/ ~InUnit(ev)
            THEN /\ pc = "build_failed"
                 /\ schedule_policy = NoSchedule
                 /\ error = Raise("ValueError", "ScheduledSamplingPolicy.__init__")
            ELSE /\ schedule_policy.policy = "linear"
                 /\ \A n \in GlobSteps :
                      /\ ThetaAt(n).err = NoError
                      /\ n <= s => ThetaAt(n).val = sv
                      /\ n >= e => ThetaAt(n).val = ev
                      /\ InUnit(ThetaAt(n).val)
                      /\ IF RLt(ev, sv)
                         THEN RLeq(ThetaAt(n + 1).val, ThetaAt(n).val)
                         ELSE RLeq(ThetaAt(n).val, ThetaAt(n + 1).val)

C11_Witness ==
    /\ LinearArgs
    /\ pc = "built"
    /\ schedule_policy.policy = "linear"
    /\ schedule_policy.end_step - schedule_policy.start_step >= 2
    /\ RLt(schedule_policy.end_value, schedule_policy.start_value)
    /\ RLt(ThetaAt(schedule_policy.start_step + 1).val, schedule_policy.start_value)
    /\ RLt(schedule_policy.end_value, ThetaAt(schedule_policy.start_step + 1).val)

LrAt(n) == get_learning_rate(learning_rate_policy, n)
IsMultiple(m, d) == \E k \in (0 - m)..m : k * d = m

\* C12: with the policy 'step', for every configured decay period d the
\* learning rate lr(n) is defined for every global step n >= 0, is >= 0,
\* equals lr(n)/2 at n+1 exactly when n+1 is a multiple of d, and is
\* unchanged from n to n+1 otherwise.
C12_StepHalving ==
    (pc # "start" /\ learning_rate_policy.policy = "step") =>
        \A n \in GlobSteps :
            /\ LrAt(n).err = NoError
            /\ LrAt(n + 1).err = NoError
            /\ RLeq(RInt(0), LrAt(n).val)
            /\ IF IsMultiple(n + 1, learning_rate_policy.decay_period)
               THEN LrAt(n + 1).val = RDiv(LrAt(n).val, RInt(2))
               ELSE LrAt(n + 1).val = LrAt(n).val

LinearWeights ==
    /\ pc # "start"
    /\ target_weights_policy.constructed
    /\ args.target_weights = "linear"
WeightAt(t) == get_weight(target_weights_policy, t)
NetworkBuilt == pc \in {"built", "stepped", "step_failed"}

\* C13: with the linear mode, for every configured sample_length and every
\* step t the weight is t / (sample_length - 1): non-negative, 0 at the first
\* step, 1 at the last, strictly increasing in t, and the weights of the
\* network are these whatever the global step of a later call.
C13_LinearWeightEveryLength ==
    LinearWeights =>
        /\ \A t \in Steps :
             /\ WeightAt(t).err = NoError
             /\ WeightAt(t).val[1] * (args.sample_length - 1) = t * WeightAt(t).val[2]
             /\ RLeq(RInt(0), WeightAt(t).val)
             /\ \A u \in Steps : t < u => RLt(WeightAt(t).val, WeightAt(u).val)
        /\ WeightAt(0).val = RInt(0)
        /\ WeightAt(args.sample_length - 1).val = RInt(1)
        /\ NetworkBuilt => loss_weights = [t \in Steps |-> WeightAt(t).val]


TrainCall == ~args.test /\ call.train_set
Returned(op) == \E k \in DOMAIN ops : ops[k] = op

\* C19: Model.step returns the optimizer and feeds the learning rate exactly
\* in a Train call (not test mode, train_set = True); the value fed is
\* get_learning_rate(glob_step) and a Train call with glob_step < 0 fails its
\* assertion.  Evaluate and Generate calls feed no learning rate and return no
\* optimizer; an Evaluate call still feeds inputs, targets and use_prev for
\* every step.
C19_OptimizerOnlyInTrain ==
    /\ pc = "stepped" =>
         /\ Returned("opt_op") <=> TrainCall
         /\ feed_dict.current_learning_rate # Unfed <=> TrainCall
         /\ TrainCall =>
              /\ call.glob_step >= 0
              /\ feed_dict.current_learning_rate = LrAt(call.glob_step).val
         /\ (~args.test /\ ~call.train_set) =>
              /\ DOMAIN feed_dict.inputs = Steps
              /\ DOMAIN feed_dict.targets = Steps
              /\ DOMAIN feed_dict.use_prev = Steps
    /\ (pc = "step_failed" /\ TrainCall /\ call.glob_step < 0) =>
         error = Raise("AssertionError", "Model.step")

C19_Witness ==
    /\ pc = "stepped"
    /\ TrainCall
    /\ learning_rate_policy.policy = "step"
    /\ call.glob_step >= learning_rate_policy.decay_period
    /\ learning_rate_policy.decay_period >= 1
    /\ Returned("opt_op")
    /\ RLt(feed_dict.current_learning_rate, learning_rate_policy.learning_rate_init)

----------------------------------------------------------------------------
(* MusicData.get_batches *)

Pitches == 0..(NB_NOTES - 1)

\* A piano roll is song[p][t] in {0, 1}, p a pitch, t in 0..len-1.
\* The rolls of the dataset: column t of Roll(len, k) is the binary
\* representation of t + k, so that all column values occur and windows at
\* different offsets differ.
Roll(len, k) == [p \in Pitches |-> [t \in 0..(len - 1) |-> ((t + k) \div Pow2(p)) % 2]]

\* song.shape[-1]
song_length(song) == Cardinality(DOMAIN song[0])

RECURSIVE Sum(_)
Sum(lens) == IF lens = <<>> THEN 0 ELSE Head(lens) + Sum(Tail(lens))

\* The datasets: up to MaxSongs songs of up to MaxTotalLen columns together,
\* the n-th song being Roll(lens[n], k + n - 1)
Datasets ==
    {[n \in DOMAIN lens |-> Roll(lens[n], k + n - 1)] :
        lens \in {l \in UNION {[1..n -> 1..MaxSongLen] : n \in 0..MaxSongs} :
                    Sum(l) <= MaxTotalLen},
        k \in 0..(NbPatterns - 1)}

\* Shorter sample lengths are left out: a song of len columns gives
\* 2 * len // sample_length windows
DataArgs == [sample_length : {3, 4}, batch_size : 1..MaxBatchSize]

\* np.random.randint(high): the values it can return; it raises ValueError
\* when there is none
randint(high) == 0..(high - 1)
randint_raises(high) == high <= 0

\* Line 272
sample_subsampling_length(sl) == sl + 1

\* Line 281
max_start_of(song, sl) == song_length(song) - sample_subsampling_length(sl)

\* Mutant: the number of sub-samples computed from the window length
nb_sample_song_window(len_song, sl) == (2 * len_song) \div (sl + 1)

\* Line 283
nb_sample_song(len_song, sl) == (2 * len_song) \div sl

\* Line 286: song[:, start:start+length], which stops at the end of the song
slice(song, start, length) ==
    LET stop == Min(start + length, song_length(song))
    IN  [p \in Pitches |-> [t \in 0..(stop - start - 1) |-> song[p][start + t]]]

\* The lists of sub-songs the inner loop (lines 284-287) can append for song
\* number k; each sub-song remembers the song and the offset it is a view of
song_samples(song, k, sl) ==
    LET nb == nb_sample_song(song_length(song), sl)
    IN  {[n \in 1..nb |->
            [song |-> k, start |-> f[n],
             array |-> slice(song, f[n], sample_subsampling_length(sl))]] :
         f \in [1..nb -> randint(max_start_of(song, sl))]}

RECURSIVE sample_songs(_, _, _)
sample_songs(songs_set, k, sl) ==
    IF k > Len(songs_set) THEN {<<>>}
    ELSE {a \o b : a \in song_samples(songs_set[k], k, sl),
                   b \in sample_songs(songs_set, k + 1, sl)}

\* The exception the loop over the song k raises, if any (lines 282 and 285)
song_error(song, sl) ==
    IF ~(max_start_of(song, sl) >= 0) THEN Raise("AssertionError", "get_batches")
    ELSE IF nb_sample_song(song_length(song), sl) > 0 /\ randint_raises(max_start_of(song, sl))
    THEN Raise("ValueError", "np.random.randint")
    ELSE NoError

\* First part of get_batches (lines 274-287)
subsample_error(songs_set, sl) ==
    IF \E k \in 1..Len(songs_set) : song_error(songs_set[k], sl) # NoError
    THEN LET k0 == CHOOSE k \in 1..Len(songs_set) :
                      /\ song_error(songs_set[k], sl) # NoError
                      /\ \A j \in 1..(k - 1) : song_error(songs_set[j], sl) = NoError
         IN  song_error(songs_set[k0], sl)
    ELSE NoError

songs_set_of(ts) == IF ts THEN songs_train ELSE songs_test

Subsample ==
    /\ pc = "data_ready"
    /\ \E ts \in BOOLEAN :
        LET songs_set == songs_set_of(ts)
            err == subsample_error(songs_set, data_args.sample_length)
        IN  /\ train_set' = ts
            /\ error' = err
            /\ IF err # NoError
               THEN /\ sub_songs' = <<>>
                    /\ pc' = "sample_failed"
               ELSE /\ sub_songs' \in sample_songs(songs_set, 1, data_args.sample_length)
                    /\ pc' = "sampled"
    /\ UNCHANGED <<model_vars, io_vars, data_args, songs_train, songs_test, batches>>

\* np.random.shuffle(sub_songs): the orders the list can be left in
Range(s) == {s[i] : i \in DOMAIN s}
Occurrences(x, s) == Cardinality({i \in DOMAIN s : s[i] = x})
shuffle(s) ==
    {t \in [1..Len(s) -> Range(s)] : \A x \in Range(s) : Occurrences(x, t) = Occurrences(x, s)}

\* Second part of get_batches (line 291)
Shuffle ==
    /\ pc = "sampled"
    /\ sub_songs' \in shuffle(sub_songs)
    /\ pc' = "shuffled"
    /\ UNCHANGED <<model_vars, io_vars, data_args, songs_train, songs_test, train_set, batches,
                   error>>

\* Mutant: the last, partial group of samples is yielded too
nb_batches_ceil(nb_samples, batch_size) == (nb_samples + batch_size - 1) \div batch_size

\* Line 301: the number of groups gen_next_samples yields
nb_batches(nb_samples, batch_size) == nb_samples \div batch_size

\* Line 302: sub_songs[i*batch_size:(i+1)*batch_size]
gen_next_samples(subs, i, batch_size) ==
    SubSeq(subs, i * batch_size + 1, Min((i + 1) * batch_size, Len(subs)))

\* Mutant: the target read from the column of the input
target_value_same_column(sample, p, i) == IF sample[p][i] = 1 THEN 1 ELSE 0

\* Lines 313 and 317: the input of pitch p at step i
input_value(sample, p, i) == IF sample[p][i] = 1 THEN 1 ELSE -1

\* Lines 314 and 318: the target of pitch p at step i
target_value(sample, p, i) == IF sample[p][i + 1] = 1 THEN 1 ELSE 0

\* Lines 305-321: the batch of a group of samples
make_batch(samples, sl) ==
    [inputs |-> [i \in 0..(sl - 1) |->
                    [j \in 0..(Len(samples) - 1) |->
                        [p \in Pitches |-> input_value(samples[j + 1].array, p, i)]]],
     targets |-> [i \in 0..(sl - 1) |->
                    [j \in 0..(Len(samples) - 1) |->
                        [p \in Pitches |-> target_value(samples[j + 1].array, p, i)]]]]

\* Third part of get_batches (lines 296-329), with the assertion of line 308
GenerateBatches ==
    /\ pc = "shuffled"
    /\ LET bs == data_args.batch_size
           groups == [i \in 1..nb_batches(Len(sub_songs), bs) |->
                        gen_next_samples(sub_songs, i - 1, bs)]
       IN  IF \E i \in DOMAIN groups : Len(groups[i]) # bs
           THEN /\ batches' = <<>>
                /\ error' = Raise("AssertionError", "get_batches")
                /\ pc' = "batch_failed"
           ELSE /\ batches' = [i \in DOMAIN groups |->
                                 make_batch(groups[i], data_args.sample_length)]
                /\ error' = NoError
                /\ pc' = "batched"
    /\ UNCHANGED <<model_vars, io_vars, data_args, songs_train, songs_test, train_set,
                   sub_songs>>

\* The dataset after _split_dataset: songs_train and songs_test are the two
\* parts of one list of songs
InitData ==
    /\ ModelStart
    /\ CodecStart
    /\ CorpusStart
    /\ InitiatorStart
    /\ data_args \in DataArgs
    /\ \E d \in Datasets : \E n \in 0..Len(d) :
        /\ songs_train = SubSeq(d, 1, n)
        /\ songs_test = SubSeq(d, n + 1, Len(d))
    /\ train_set = TRUE
    /\ sub_songs = <<>>
    /\ batches = <<>>
    /\ error = NoError
    /\ pc = "data_ready"

NextData ==
    \/ Subsample
    \/ Shuffle
    \/ GenerateBatches

SpecData == InitData /\ [][NextData]_vars

----------------------------------------------------------------------------
(* Properties of MusicData.get_batches (SpecData) *)

SongsSet == songs_set_of(train_set)
WindowLen == data_args.sample_length + 1
DataSteps == 0..(data_args.sample_length - 1)
Examples == 0..(data_args.batch_size - 1)

\* The window behind example j of batch number b (b counted from 1)
WindowOf(b, j) == sub_songs[(b - 1) * data_args.batch_size + j + 1].array

\* C3: in every returned batch, input[t][j,p] is +1 if the example's window
\* has a 1 at (p, t) and -1 otherwise, target[t][j,p] is 1 if the window has
\* a 1 at (p, t+1) and 0 otherwise; so target[t] is input[t+1] with -1 mapped
\* to 0, and the last target is the window's final column.
C3_TargetIsShiftedInput ==
    pc = "batched" =>
        \A b \in DOMAIN batches : \A j \in Examples : \A p \in Pitches :
            LET w == WindowOf(b, j)
                last == data_args.sample_length - 1
            IN  /\ \A t \in DataSteps :
                    /\ batches[b].inputs[t][j][p] = (IF w[p][t] = 1 THEN 1 ELSE -1)
                    /\ batches[b].targets[t][j][p] = (IF w[p][t + 1] = 1 THEN 1 ELSE 0)
                    /\ t + 1 < data_args.sample_length =>
                        batches[b].targets[t][j][p] * 2 - 1 = batches[b].inputs[t + 1][j][p]
                /\ batches[b].targets[last][j][p] = w[p][data_args.sample_length]

C3_Witness ==
    /\ pc = "batched"
    /\ \E b \in DOMAIN batches : \E j \in Examples : \E p \in Pitches : \E t \in DataSteps :
        /\ t + 1 < data_args.sample_length
        /\ batches[b].inputs[t][j][p] = -1
        /\ batches[b].targets[t][j][p] = 1
        /\ batches[b].inputs[t + 1][j][p] = 1
        /\ batches[b].targets[t + 1][j][p] = 0

\* C4: get_batches returns exactly floor(N / batch_size) batches for the N
\* sampled windows, each of batch_size examples, sample_length input steps
\* and sample_length target steps; the N mod batch_size last windows are in
\* no batch, and the batching never fails.
C4_FullBatchesOnly ==
    /\ pc # "batch_failed"
    /\ pc = "batched" =>
        /\ Len(batches) * data_args.batch_size <= Len(sub_songs)
        /\ Len(sub_songs) < (Len(batches) + 1) * data_args.batch_size
        /\ \A b \in DOMAIN batches :
            /\ DOMAIN batches[b].inputs = DataSteps
            /\ DOMAIN batches[b].targets = DataSteps
            /\ \A t \in DataSteps :
                /\ DOMAIN batches[b].inputs[t] = Examples
                /\ DOMAIN batches[b].targets[t] = Examples

C4_Witness ==
    /\ pc = "batched"
    /\ Len(batches) = 1
    /\ data_args.batch_size = 4
    /\ Len(sub_songs) = 6

\* C5 as stated: window sampling fails if and only if some roll of the
\* selected partition is shorter than window_len; a roll of exactly
\* window_len columns is sampled successfully.
C5_FailsIffTooShort ==
    pc \in {"sampled", "sample_failed"} =>
        ((pc = "sample_failed") <=>
            \E k \in DOMAIN SongsSet : song_length(SongsSet[k]) < WindowLen)

\* C6 as stated: for a roll with max_start >= 0 the start offsets that can be
\* drawn are exactly 0..max_start, and every window is the slice
\* [start, start + window_len) of its roll.
C6_StartOffsets ==
    /\ pc = "sampled" =>
        \A k \in DOMAIN SongsSet :
            LET max_start == song_length(SongsSet[k]) - WindowLen
            IN  max_start >= 0 => randint(max_start) = 0..max_start
    /\ pc = "sampled" =>
        \A n \in DOMAIN sub_songs :
            LET w == sub_songs[n]
            IN  \A p \in Pitches : \A t \in 0..(WindowLen - 1) :
                    w.array[p][t] = SongsSet[w.song][p][w.start + t]

\* C7: when the sampling part completes, exactly floor(2 * roll_length /
\* sample_length) windows come from every roll of the selected partition, the
\* list is roll-major, and its length is the sum of the per-roll counts.
C7_WindowsPerSong ==
    pc = "sampled" =>
        /\ \A k \in DOMAIN SongsSet :
            LET n == Cardinality({i \in DOMAIN sub_songs : sub_songs[i].song = k})
                len == song_length(SongsSet[k])
            IN  /\ n * data_args.sample_length <= 2 * len
                /\ 2 * len < (n + 1) * data_args.sample_length
        /\ \A i \in DOMAIN sub_songs : sub_songs[i].song \in DOMAIN SongsSet
        /\ \A i \in DOMAIN sub_songs : \A j \in DOMAIN sub_songs :
            i < j => sub_songs[i].song <= sub_songs[j].song

C7_Witness ==
    /\ pc = "sampled"
    /\ Len(SongsSet) = 2
    /\ SongsSet[1] # SongsSet[2]
    /\ Cardinality({i \in DOMAIN sub_songs : sub_songs[i].song = 1}) = 3
    /\ Cardinality({i \in DOMAIN sub_songs : sub_songs[i].song = 2}) = 3

----------------------------------------------------------------------------
(* music.songstruct: Song, Note and the note range, as musicdata.py uses them *)

MIDI_NOTES_LOW == 1             \* the MIDI pitch of row 0 of a piano roll
DEFAULT_TICKS_PER_BEAT == 96    \* ticks_per_beat of music.Song()
DEFAULT_DURATION == 32          \* duration of music.Note()

\* The MIDI pitches that have a row in the piano roll
MidiPitches == MIDI_NOTES_LOW..(MIDI_NOTES_LOW + NB_NOTES - 1)

\* music.Song() and music.Note()
NewSong == [ticks_per_beat |-> DEFAULT_TICKS_PER_BEAT, tracks |-> <<>>]
NewNote == [note |-> 0, tick |-> 0, duration |-> DEFAULT_DURATION]

get_relative_note(n) == n.note - MIDI_NOTES_LOW
set_relative_note(n, rel) == [n EXCEPT !.note = rel + MIDI_NOTES_LOW]

\* The notes of all the tracks of a song
NotesOf(s) == UNION {{s.tracks[k][i] : i \in DOMAIN s.tracks[k]} : k \in DOMAIN s.tracks}
Max(S) == CHOOSE m \in S : \A x \in S : x <= m

\* len(song): the tick at which the last note ends
len_song(s) == IF NotesOf(s) = {} THEN 0 ELSE Max({n.tick + n.duration : n \in NotesOf(s)})

----------------------------------------------------------------------------
(* MusicData._convert_song2array, _convert_array2song, _get_scale *)

MAXIMUM_SONG_RESOLUTION == 4
NOTES_PER_BAR == 4

\* Line 242: an integer division, as the source has it
get_scale(s) == FloorDiv(4 * s.ticks_per_beat, MAXIMUM_SONG_RESOLUTION * NOTES_PER_BAR)

\* Mutant: the width rounded down
roll_width_floor(len_ticks, scale) == FloorDiv(len_ticks, scale)

\* Line 190: int(np.ceil(song_length/scale))
roll_width(len_ticks, scale) == 0 - FloorDiv(0 - len_ticks, scale)

\* numpy indexing of an axis of n entries: negative indices count from the
\* end, -1 here stands for IndexError
np_index(i, n) ==
    IF 0 <= i /\ i < n THEN i
    ELSE IF 0 - n <= i /\ i < 0 THEN i + n
    ELSE -1

\* Lines 183-197
convert_song2array(s) ==
    LET at == "MusicData._convert_song2array"
        scale == get_scale(s)
    IN  IF scale = 0
        THEN [err |-> Raise("ZeroDivisionError", at), val |-> <<>>]
        ELSE LET width == roll_width(len_song(s), scale)
                 row(n) == np_index(get_relative_note(n), NB_NOTES)
                 col(n) == np_index(FloorDiv(n.tick, scale), width)
             IN  IF \E n \in NotesOf(s) : row(n) = -1 \/ col(n) = -1
                 THEN [err |-> Raise("IndexError", at), val |-> <<>>]
                 ELSE [err |-> NoError,
                       val |-> [p \in Pitches |-> [t \in 0..(width - 1) |->
                                  IF \E n \in NotesOf(s) : row(n) = p /\ col(n) = t
                                  THEN 1 ELSE 0]]]

\* Mutant: the column used as the tick
decoded_tick_unscaled(column, scale) == column

\* Line 221
decoded_tick(column, scale) == column * scale

\* Lines 209-227: np.ndenumerate visits the cells row by row; the cells of
\* the arrays handled here are integers, so x > 1e-12 is x >= 1
convert_array2song(array) ==
    LET scale == get_scale(NewSong)
        width == song_length(array)
        cells == [k \in 1..(NB_NOTES * width) |-> <<(k - 1) \div width, (k - 1) % width>>]
        active == SelectSeq(cells, LAMBDA c : array[c[1]][c[2]] >= 1)
        main_track ==
            [k \in DOMAIN active |->
                [set_relative_note(NewNote, active[k][1])
                    EXCEPT !.tick = decoded_tick(active[k][2], scale)]]
    IN  [NewSong EXCEPT !.tracks = <<main_track>>]

----------------------------------------------------------------------------
(* The conversions applied to the songs a midi file can hold (SpecCodec) *)

MaxTicksPerBeat == 8   \* song.ticks_per_beat ranges over 1..MaxTicksPerBeat
MaxTick == 4           \* note.tick ranges over 0..MaxTick
MaxDuration == 1       \* note.duration ranges over 0..MaxDuration

Notes == [note : MidiPitches, tick : 0..MaxTick, duration : 0..MaxDuration]

\* One track of one or two notes, or two tracks of which the second has a note
Tracks ==
    {<<<<n>>>> : n \in Notes}
    \cup {<<<<n, m>>>> : n \in Notes, m \in Notes}
    \cup {<<<<n>>, <<m>>>> : n \in Notes, m \in Notes}
    \cup {<<<<>>, <<n>>>> : n \in Notes}

Songs == [ticks_per_beat : 1..MaxTicksPerBeat, tracks : Tracks]

Encode ==
    /\ pc = "codec_ready"
    /\ LET r == convert_song2array(loaded_song)
       IN  /\ piano_roll' = r.val
           /\ error' = r.err
           /\ pc' = IF r.err = NoError THEN "encoded" ELSE "encode_failed"
    /\ UNCHANGED <<model_vars, data_vars, corpus_vars, initiator_vars, loaded_song, new_song,
                   new_roll>>

Decode ==
    /\ pc = "encoded"
    /\ new_song' = convert_array2song(piano_roll)
    /\ pc' = "decoded"
    /\ UNCHANGED <<model_vars, data_vars, corpus_vars, initiator_vars, loaded_song, piano_roll,
                   new_roll, error>>

EncodeAgain ==
    /\ pc = "decoded"
    /\ LET r == convert_song2array(new_song)
       IN  /\ new_roll' = r.val
           /\ error' = r.err
           /\ pc' = IF r.err = NoError THEN "encoded_again" ELSE "encode_again_failed"
    /\ UNCHANGED <<model_vars, data_vars, corpus_vars, initiator_vars, loaded_song, piano_roll,
                   new_song>>

InitCodec ==
    /\ ModelStart
    /\ DataStart
    /\ CorpusStart
    /\ InitiatorStart
    /\ loaded_song \in Songs
    /\ piano_roll = <<>>
    /\ new_song = NoSong
    /\ new_roll = <<>>
    /\ error = NoError
    /\ pc = "codec_ready"

NextCodec ==
    \/ Encode
    \/ Decode
    \/ EncodeAgain

SpecCodec == InitCodec /\ [][NextCodec]_vars

----------------------------------------------------------------------------
(* Properties of the conversions (SpecCodec) *)

EncodeTried == pc \in {"encoded", "encode_failed", "decoded", "encoded_again", "encode_again_failed"}
EncodeDone == pc \in {"encoded", "decoded", "encoded_again", "encode_again_failed"}
DecodeDone == pc \in {"decoded", "encoded_again", "encode_again_failed"}
ExactScale(s) == (4 * s.ticks_per_beat) % (MAXIMUM_SONG_RESOLUTION * NOTES_PER_BAR) = 0
Active(array) == {<<p, t>> \in Pitches \X (0..(song_length(array) - 1)) : array[p][t] = 1}
TicksInside(s) == \A n \in NotesOf(s) : 0 <= n.tick /\ n.tick < len_song(s)

\* C16: converting a song whose scale 4 * ticks_per_beat /
\* (MAXIMUM_SONG_RESOLUTION * NOTES_PER_BAR) is not an exact integer fails
\* with an error; the quotient is never silently truncated.
C16_InexactScaleRejected ==
    (EncodeTried /\ ~ExactScale(loaded_song)) => (pc = "encode_failed" /\ error # NoError)

\* C17: the song decoded from the array of a converted song has a single
\* track with exactly one note per cell that is 1, the set of (relative note,
\* tick // scale of the decoded song) of its notes is the set of the cells
\* that are 1, and converting the decoded song again sets the same cells.
C17_RoundTrip ==
    /\ DecodeDone =>
         /\ Len(new_song.tracks) = 1
         /\ Len(new_song.tracks[1]) = Cardinality(Active(piano_roll))
         /\ {<<get_relative_note(n), FloorDiv(n.tick, get_scale(new_song))>> :
                n \in NotesOf(new_song)} = Active(piano_roll)
         /\ pc # "encode_again_failed"
    /\ pc = "encoded_again" => Active(new_roll) = Active(piano_roll)

C17_Witness ==
    /\ pc = "encoded_again"
    /\ Cardinality(Active(piano_roll)) = 2
    /\ Len(loaded_song.tracks) = 2
    /\ \E c \in Active(new_roll) : c[2] >= 2
    /\ \E c \in Active(new_roll) : c[1] >= 1

----------------------------------------------------------------------------
(* MusicData.get_batches_test (SpecInitiator) *)

\* Line 368: the column of new_input a note of the initiator file is written to
initiator_index(note) == np_index(note, NB_NOTES)

\* Lines 354-374.  The notes of a step are given as the set of the listed
\* MIDI pitches: writing 1.0 twice, or in another order, gives the same array.
get_batches_test(a, ini) ==
    LET at == "MusicData.get_batches_test"
        none == [err |-> NoError, batches |-> <<>>, names |-> <<>>]
    IN  IF a.batch_size # 1
        THEN [none EXCEPT !.err = Raise("AssertionError", at)]
        ELSE IF \E k \in DOMAIN ini : \E t \in DOMAIN ini[k].seq :
                   \E note \in ini[k].seq[t].notes : initiator_index(note) = -1
        THEN [none EXCEPT !.err = Raise("IndexError", at)]
        ELSE [err |-> NoError,
              batches |->
                [k \in DOMAIN ini |->
                    [inputs |->
                        [t \in 0..(Len(ini[k].seq) - 1) |->
                            [j \in 0..(a.batch_size - 1) |->
                                [p \in Pitches |->
                                    IF j = 0 /\ \E note \in ini[k].seq[t + 1].notes :
                                                    initiator_index(note) = p
                                    THEN 1 ELSE -1]]],
                     targets |-> <<>>]],
              names |-> [k \in DOMAIN ini |-> ini[k].name]]

\* The initiator files: no entry, one entry of up to MaxSeq steps, or such an
\* entry followed by one of at most one step; every step lists MIDI pitches
\* of the note range
InitiatorSteps == [notes : SUBSET MidiPitches]
InitiatorSeqs(n) == UNION {[1..m -> InitiatorSteps] : m \in 0..n}
Initiators ==
    {<<>>}
    \cup {<<[name |-> "Simple_C4", seq |-> s]>> : s \in InitiatorSeqs(MaxSeq)}
    \cup {<<[name |-> "some_chords", seq |-> s], [name |-> "Simple_C4", seq |-> u]>> :
            s \in InitiatorSeqs(MaxSeq), u \in InitiatorSeqs(1)}

GetBatchesTest ==
    /\ pc = "test_ready"
    /\ LET r == get_batches_test(data_args, initiators)
       IN  /\ test_batches' = r.batches
           /\ names' = r.names
           /\ error' = r.err
           /\ pc' = IF r.err = NoError THEN "test_batched" ELSE "test_failed"
    /\ UNCHANGED <<model_vars, data_vars, codec_vars, corpus_vars, initiators>>

InitInitiator ==
    /\ ModelStart
    /\ CodecStart
    /\ CorpusStart
    /\ data_args \in [sample_length : {MaxSeq}, batch_size : {1, 2}]
    /\ songs_train = <<>>
    /\ songs_test = <<>>
    /\ train_set = FALSE
    /\ sub_songs = <<>>
    /\ batches = <<>>
    /\ initiators \in Initiators
    /\ test_batches = <<>>
    /\ names = <<>>
    /\ error = NoError
    /\ pc = "test_ready"

NextInitiator == GetBatchesTest

SpecInitiator == InitInitiator /\ [][NextInitiator]_vars

----------------------------------------------------------------------------
(* Properties of MusicData.get_batches_test (SpecInitiator) *)

\* The row the conversions give to a MIDI pitch
RowOf(pitch) == get_relative_note([NewNote EXCEPT !.note = pitch])

\* C18: with batch_size = 1, get_batches_test returns one batch per entry of
\* the initiator file, in order, with one input step per entry of the
\* entry's seq and no targets; in each input step the position of every
\* listed pitch is +1 and every other position is -1, the position of a MIDI
\* pitch being the row get_relative_note gives it in the piano rolls.
C18_InitiatorRows ==
    (pc \in {"test_batched", "test_failed"} /\ data_args.batch_size = 1) =>
        /\ pc = "test_batched"
        /\ DOMAIN test_batches = DOMAIN initiators
        /\ \A k \in DOMAIN initiators :
             /\ names[k] = initiators[k].name
             /\ test_batches[k].targets = <<>>
             /\ DOMAIN test_batches[k].inputs = 0..(Len(initiators[k].seq) - 1)
             /\ \A t \in DOMAIN test_batches[k].inputs : \A p \in Pitches :
                  test_batches[k].inputs[t][0][p] =
                      (IF \E note \in initiators[k].seq[t + 1].notes : RowOf(note) = p
                       THEN 1 ELSE -1)

----------------------------------------------------------------------------
(* MusicData.__init__: _restore_dataset and _split_dataset (SpecCorpus) *)

DATA_VERSION == "0.2"

\* Mutant: the songs of the file adopted before the version is checked
restore_samples_adopting(self_songs, file) ==
    IF file.version # DATA_VERSION
    THEN [err |-> Raise("UserWarning", "MusicData._restore_samples"), songs |-> file.songs]
    ELSE [err |-> NoError, songs |-> file.songs]

\* Lines 120-129: self.songs after the call, and the exception raised
restore_samples(self_songs, file) ==
    IF file.version # DATA_VERSION
    THEN [err |-> Raise("UserWarning", "MusicData._restore_samples"), songs |-> self_songs]
    ELSE [err |-> NoError, songs |-> file.songs]

\* Lines 137-142: the content written
save_samples(self_songs) == [version |-> DATA_VERSION, songs |-> self_songs]

\* Lines 150-157: a file MidiConnector.load_file rejects is skipped, the
\* others are converted and appended in the order of the directory
RECURSIVE load_files(_, _)
load_files(dir, self_songs) ==
    IF dir = <<>> THEN [err |-> NoError, songs |-> self_songs]
    ELSE IF ~Head(dir).valid THEN load_files(Tail(dir), self_songs)
    ELSE LET r == convert_song2array(Head(dir).song)
         IN  IF r.err # NoError THEN [err |-> r.err, songs |-> self_songs]
             ELSE load_files(Tail(dir), Append(self_songs, r.val))

\* Lines 144-168
create_samples(dir) ==
    LET r == load_files(dir, <<>>)
    IN  IF r.err = NoError /\ r.songs = <<>>
        THEN [err |-> Raise("ValueError", "MusicData._create_samples"), songs |-> <<>>]
        ELSE r

\* Mutant: the samples saved before they are shuffled
restore_dataset_save_first(file, dir) ==
    IF file # NoFile
    THEN LET r == restore_samples(<<>>, file)
         IN  {[err |-> r.err, songs |-> r.songs, file |-> file, shuffles |-> 0]}
    ELSE LET c == create_samples(dir)
         IN  IF c.err # NoError
             THEN {[err |-> c.err, songs |-> c.songs, file |-> NoFile, shuffles |-> 0]}
             ELSE {[err |-> NoError, songs |-> q, file |-> save_samples(c.songs),
                    shuffles |-> 1] : q \in shuffle(c.songs)}

\* Lines 99-111: the outcomes of _restore_dataset on a new MusicData, one
\* for each order np.random.shuffle can leave the songs in
restore_dataset(file, dir) ==
    IF file # NoFile
    THEN LET r == restore_samples(<<>>, file)
         IN  {[err |-> r.err, songs |-> r.songs, file |-> file, shuffles |-> 0]}
    ELSE LET c == create_samples(dir)
         IN  IF c.err # NoError
             THEN {[err |-> c.err, songs |-> c.songs, file |-> NoFile, shuffles |-> 0]}
             ELSE {[err |-> NoError, songs |-> q, file |-> save_samples(q),
                    shuffles |-> 1] : q \in shuffle(c.songs)}

\* Line 247: int(ratio_dataset * len(songs)), for a ratio >= 0
split_nb(ratio, self_songs) == FloorDiv(ratio[1] * Len(self_songs), ratio[2])

\* Lines 248-249
split_dataset(ratio, self_songs) ==
    [songs_train |-> SubSeq(self_songs, 1, split_nb(ratio, self_songs)),
     songs_test |-> SubSeq(self_songs, split_nb(ratio, self_songs) + 1, Len(self_songs))]

MaxMidiFiles == 3      \* files in the midi directory
RatioDen == 2          \* args.ratio_dataset ranges over k/RatioDen, 0 <= k <= RatioDen
MaxRuns == 3           \* constructions of MusicData in a behaviour

\* The k-th midi file: rejected by the parser, a song of one note whose array
\* differs from those of the other files, or such a song with 2 ticks per beat
MidiSong(k, tpb) ==
    [ticks_per_beat |-> tpb,
     tracks |-> <<<<[note |-> MIDI_NOTES_LOW + (k % NB_NOTES), tick |-> (k - 1) * (tpb \div 4),
                     duration |-> 1]>>>>]
MidiFile(k, kind) ==
    IF kind = "invalid" THEN [valid |-> FALSE, song |-> NoSong]
    ELSE IF kind = "song" THEN [valid |-> TRUE, song |-> MidiSong(k, 4)]
    ELSE [valid |-> TRUE, song |-> MidiSong(k, 2)]
MidiDirs ==
    {[k \in DOMAIN kinds |-> MidiFile(k, kinds[k])] :
        kinds \in UNION {[1..n -> {"invalid", "song", "two_ticks"}] : n \in 0..MaxMidiFiles}}

\* The samples files an earlier run, of this or of an older version of the
\* program, can have left
StoredSongs ==
    LET a == convert_song2array(MidiSong(1, 4)).val
        b == convert_song2array(MidiSong(2, 4)).val
    IN  {<<a>>, <<a, b>>, <<b, a>>}
SamplesFiles == {NoFile} \cup [version : {"0.1", DATA_VERSION}, songs : StoredSongs]

Ratios == {Norm(k, RatioDen) : k \in 0..RatioDen}

\* Lines 44-86: one construction of MusicData
MusicData_init ==
    /\ pc \in {"corpus_ready", "ran", "run_failed"}
    /\ runs < MaxRuns
    /\ runs' = runs + 1
    /\ \E test \in BOOLEAN :
        /\ data_args' = [data_args EXCEPT !.test = test]
        /\ IF test
           THEN /\ songs' = <<>>
                /\ songs_train' = <<>>
                /\ songs_test' = <<>>
                /\ error' = NoError
                /\ pc' = "ran"
                /\ UNCHANGED <<samples_file, nb_shuffles, created>>
           ELSE \E r \in restore_dataset(samples_file, midi_dir) :
                LET split == IF r.err = NoError
                             THEN split_dataset(data_args.ratio_dataset, r.songs)
                             ELSE [songs_train |-> <<>>, songs_test |-> <<>>]
                IN  /\ songs' = r.songs
                    /\ samples_file' = r.file
                    /\ nb_shuffles' = nb_shuffles + r.shuffles
                    /\ songs_train' = split.songs_train
                    /\ songs_test' = split.songs_test
                    /\ created' = IF r.shuffles = 1
                                  THEN [run |-> runs + 1, songs_train |-> split.songs_train,
                                        songs_test |-> split.songs_test]
                                  ELSE created
                    /\ error' = r.err
                    /\ pc' = IF r.err = NoError THEN "ran" ELSE "run_failed"
    /\ UNCHANGED <<model_vars, codec_vars, initiator_vars, midi_dir, train_set, sub_songs, batches>>

InitCorpus ==
    /\ ModelStart
    /\ CodecStart
    /\ InitiatorStart
    /\ data_args \in [ratio_dataset : Ratios, test : {FALSE}]
    /\ songs_train = <<>>
    /\ songs_test = <<>>
    /\ train_set = TRUE
    /\ sub_songs = <<>>
    /\ batches = <<>>
    /\ midi_dir \in MidiDirs
    /\ samples_file \in SamplesFiles
    /\ songs = <<>>
    /\ created = NoSplit
    /\ nb_shuffles = 0
    /\ runs = 0
    /\ error = NoError
    /\ pc = "corpus_ready"

NextCorpus == MusicData_init

SpecCorpus == InitCorpus /\ [][NextCorpus]_vars

----------------------------------------------------------------------------
(* Properties of the samples file (SpecCorpus) *)

\* The last construction was not in test mode and found a samples file
Loaded == runs >= 1 /\ ~data_args.test /\ samples_file # NoFile /\ created.run # runs
Trained == pc = "ran" /\ runs >= 1 /\ ~data_args.test

\* C14: a run that loads a samples file whose version differs from
\* DATA_VERSION fails with an error and its song list stays as it was,
\* empty, with no song of the file in it; a run that loads a file of the
\* right version has exactly the stored songs, in the stored order.
C14_VersionGuard ==
    Loaded =>
        IF samples_file.version # DATA_VERSION
        THEN /\ pc = "run_failed"
             /\ error = Raise("UserWarning", "MusicData._restore_samples")
             /\ songs = <<>>
             /\ songs_train = <<>> /\ songs_test = <<>>
        ELSE /\ pc = "ran"
             /\ songs = samples_file.songs

C14_Witness ==
    /\ Loaded
    /\ pc = "run_failed"
    /\ samples_file.version = "0.1"
    /\ Len(samples_file.songs) = 2
    /\ songs = <<>>

\* C15: the songs are created and shuffled only by a run that finds no
\* samples file, and the file that run writes holds the songs in the shuffled
\* order the run goes on with; once the file exists no run rewrites it or
\* shuffles again, and every later training run has the train partition (the
\* first floor(ratio * len) songs of the file) and the test partition (the
\* others) of the run that wrote the file.
C15_StableSplit ==
    /\ [][samples_file # NoFile =>
            (samples_file' = samples_file /\ nb_shuffles' = nb_shuffles)]_vars
    /\ [][(samples_file = NoFile /\ samples_file' # NoFile) =>
            /\ nb_shuffles' = nb_shuffles + 1
            /\ created'.run = runs'
            /\ samples_file'.songs = songs']_vars
    /\ [](Trained =>
            LET n == Len(songs_train)
                ratio == data_args.ratio_dataset
            IN  /\ n * ratio[2] <= ratio[1] * Len(samples_file.songs)
                /\ ratio[1] * Len(samples_file.songs) < (n + 1) * ratio[2]
                /\ songs_train = SubSeq(samples_file.songs, 1, n)
                /\ songs_test = SubSeq(samples_file.songs, n + 1, Len(samples_file.songs))
                /\ created.run # 0 =>
                     /\ songs_train = created.songs_train
                     /\ songs_test = created.songs_test)

C15_Witness ==
    /\ Trained
    /\ runs >= 2
    /\ created.run = 1
    /\ nb_shuffles = 1
    /\ Len(songs_train) >= 1
    /\ Len(songs_test) >= 1
    /\ songs = samples_file.songs
    /\ songs # create_samples(midi_dir).songs

====
